---- MODULE Spec2Model ----
(***************************************************************************)
(* Model of src/chatbot/database.py: the "user" and "question_answer"      *)
(* tables and the functions add_user, get_user_id, subscribe_user,         *)
(* check_spam, add_question_answer, get_history_of_chat,                   *)
(* filter_chat_history and set_stop_point.                                 *)
(*                                                                         *)
(* Time is counted in ticks, TicksPerMinute ticks to the minute.  The      *)
(* database clock (func.now()) and the application clock (datetime.now())  *)
(* are one clock, "now".  Two rows may carry the same created_at; a query  *)
(* ordered by created_at then returns the tied rows in any order.          *)
(*                                                                         *)
(* "ret" is the outcome of the last completed call.  "calls" holds the     *)
(* calls in progress when callers run side by side, each with what its     *)
(* session has read so far.  "max_id_unique" tells whether the deployed    *)
(* table enforces the unique constraint that User.max_id declares.         *)
(***************************************************************************)
EXTENDS Integers, Sequences, FiniteSets, TLC

VARIABLES user, question_answer, now, ret, calls, max_id_unique

vars == <<user, question_answer, now, ret, calls, max_id_unique>>

----------------------------------------------------------------------------
(* Bounds of the model. *)

MaxUsers == 2

MaxTurns == 3

MaxClock == 2

MaxSpamTurns == 6

MaxSpamClock == 3

MaxHistLen == 3

MaxHistTime == 1

TicksPerMinute == 1

(* Constants of the program. *)

\* check_spam: len(user.question_answers) > 5
SpamThreshold == 5

\* check_spam: user.question_answers[4]
FifthIndex == 4

\* check_spam: timedelta(minutes=1)
SpamMinutes == 1

\* get_history_of_chat: time: int = 30
DefaultTime == 30

\* get_history_of_chat: limit_pairs: int = 5
DefaultLimitPairs == 5

----------------------------------------------------------------------------
(* Python values. *)

\* Optional[T]: None is the empty tuple, a present value v is <<v>>.
None == <<>>

Some(v) == <<v>>

Max(a, b) == IF a >= b THEN a ELSE b

Min(a, b) == IF a <= b THEN a ELSE b

SetMax(S) == CHOOSE x \in S : \A y \in S : y <= x

\* s[start:] of a Python list: a negative start counts from the end, and
\* both ends are clamped to the list.  Note s[-0:] is s[0:], the whole list.
PySliceFrom(s, start) ==
  LET lo == IF start < 0 THEN Max(Len(s) + start, 0) ELSE Min(start, Len(s))
  IN  SubSeq(s, lo + 1, Len(s))

\* [x for x in s if x.answer != ""]
AnswerNotEmpty(qa) == qa.answer # Some("")

\* [x for x in s if x.answer == ""]
AnswerEmpty(qa) == qa.answer = Some("")

SeqToSet(s) == {s[i] : i \in DOMAIN s}

----------------------------------------------------------------------------
(* The tables.  A row's id is its position: ids are assigned in insertion  *)
(* order by autoincrement and no row is ever deleted.                      *)

\* class User: max_id, is_subscribed
UserRow(max_id, is_subscribed) ==
  [max_id |-> max_id, is_subscribed |-> is_subscribed]

\* class QuestionAnswer: id, answer, user_id, created_at, stop_point
QuestionAnswerRow(id, answer, user_id, created_at, stop_point) ==
  [id |-> id, answer |-> answer, user_id |-> user_id,
   created_at |-> created_at, stop_point |-> stop_point]

\* select(User).where(User.id == user_id): the ids found (none or one)
SelectUserById(user_id) == {i \in DOMAIN user : i = user_id}

\* a faulty variant of SelectUserByMaxId: the filter is on User.id
SelectUserByMaxIdWrongColumn(max_id) == {i \in DOMAIN user : i = max_id}

\* select(User).where(User.max_id == max_id): the ids found
SelectUserByMaxId(max_id) == {i \in DOMAIN user : user[i].max_id = Some(max_id)}

\* the rows of question_answer owned by user_id
RowsOf(user_id) == {qa \in SeqToSet(question_answer) : qa.user_id = user_id}

\* ORDER BY created_at ASC: every order the store may return
RECURSIVE AscOrders(_)
AscOrders(S) ==
  IF S = {} THEN {<<>>}
  ELSE UNION {{<<r>> \o o : o \in AscOrders(S \ {r})} :
              r \in {x \in S : \A y \in S : x.created_at <= y.created_at}}

\* ORDER BY created_at DESC: every order the store may return
RECURSIVE DescOrders(_)
DescOrders(S) ==
  IF S = {} THEN {<<>>}
  ELSE UNION {{<<r>> \o o : o \in DescOrders(S \ {r})} :
              r \in {x \in S : \A y \in S : x.created_at >= y.created_at}}

----------------------------------------------------------------------------
(* The outcome of the last call. *)

NoCall == [op |-> "none", fault |-> ""]

Init ==
  /\ user = <<>>
  /\ question_answer = <<>>
  /\ now = 0
  /\ ret = NoCall
  /\ calls = <<>>
  /\ max_id_unique = TRUE

\* a step of a caller that runs alone: no call in progress is touched
Alone == UNCHANGED <<calls, max_id_unique>>

\* the clock advances
Tick(maxClock) ==
  /\ now < maxClock
  /\ now' = now + 1
  /\ UNCHANGED <<user, question_answer, ret>>

----------------------------------------------------------------------------
(* add_user, get_user_id, subscribe_user *)

add_user(max_id) ==
  /\ UNCHANGED <<question_answer, now>>
  /\ IF max_id = None
     THEN \* "user" is never bound: "if user is None" raises
          /\ ret' = [op |-> "add_user", fault |-> "UnboundLocalError",
                     max_id |-> max_id]
          /\ UNCHANGED user
     ELSE LET found == SelectUserByMaxId(max_id[1]) IN
          IF found = {}
          THEN /\ Len(user) < MaxUsers
               /\ user' = Append(user, UserRow(max_id, TRUE))
               /\ ret' = [op |-> "add_user", fault |-> "", max_id |-> max_id,
                          created |-> TRUE, user_id |-> Len(user) + 1]
          ELSE /\ \E i \in found :
                    ret' = [op |-> "add_user", fault |-> "", max_id |-> max_id,
                            created |-> FALSE, user_id |-> i]
               /\ UNCHANGED user

get_user_id(max_id) ==
  /\ UNCHANGED <<user, question_answer, now>>
  /\ IF max_id = None
     THEN ret' = [op |-> "get_user_id", fault |-> "UnboundLocalError",
                  max_id |-> max_id]
     ELSE LET found == SelectUserByMaxId(max_id[1]) IN
          IF found = {}
          THEN ret' = [op |-> "get_user_id", fault |-> "", max_id |-> max_id,
                       value |-> None]
          ELSE \E i \in found :
                 ret' = [op |-> "get_user_id", fault |-> "", max_id |-> max_id,
                         value |-> Some(i)]

subscribe_user(user_id) ==
  /\ UNCHANGED <<question_answer, now>>
  /\ IF SelectUserById(user_id) = {}
     THEN /\ ret' = [op |-> "subscribe_user", fault |-> "", user_id |-> user_id,
                     value |-> FALSE]
          /\ UNCHANGED user
     ELSE /\ user' = [user EXCEPT ![user_id].is_subscribed = ~@]
          /\ ret' = [op |-> "subscribe_user", fault |-> "", user_id |-> user_id,
                     value |-> ~user[user_id].is_subscribed]

----------------------------------------------------------------------------
(* check_spam *)

\* a faulty variant of SpamVerdict: it reads the 6th most recent row
SpamVerdictSixth(question_answers, at) ==
  IF Len(question_answers) > SpamThreshold
  THEN LET minute_ago == at - SpamMinutes * TicksPerMinute
           sixth_message_date == question_answers[FifthIndex + 2].created_at
       IN  minute_ago < sixth_message_date
  ELSE FALSE

\* a faulty variant of SpamVerdict: the count alone decides
SpamVerdictNoWindow(question_answers, at) ==
  Len(question_answers) > SpamThreshold

\* lines 172-176, on user.question_answers (newest first) and datetime.now()
SpamVerdict(question_answers, at) ==
  IF Len(question_answers) > SpamThreshold
  THEN LET minute_ago == at - SpamMinutes * TicksPerMinute
           fifth_message_date == question_answers[FifthIndex + 1].created_at
       IN  minute_ago < fifth_message_date
  ELSE FALSE

check_spam(user_id) ==
  /\ UNCHANGED <<user, question_answer, now>>
  /\ IF SelectUserById(user_id) = {}
     THEN ret' = [op |-> "check_spam", fault |-> "", user_id |-> user_id,
                  at |-> now, value |-> FALSE]
     ELSE \E question_answers \in DescOrders(RowsOf(user_id)) :
            ret' = [op |-> "check_spam", fault |-> "", user_id |-> user_id,
                    at |-> now, value |-> SpamVerdict(question_answers, now)]

----------------------------------------------------------------------------
(* add_question_answer *)

\* a sequence that hands out the newest row's id once more
NextQuestionAnswerIdReused == Some(Len(question_answer))

\* line 75: the primary key the flush assigns (autoincrement)
NextQuestionAnswerId == Some(Len(question_answer) + 1)

add_question_answer(answer, user_id, maxTurns) ==
  /\ UNCHANGED <<user, now>>
  /\ IF SelectUserById(user_id) = {}
     THEN \* ForeignKey("user.id"): the flush fails
          /\ ret' = [op |-> "add_question_answer", fault |-> "IntegrityError",
                     user_id |-> user_id]
          /\ UNCHANGED question_answer
     ELSE LET id == NextQuestionAnswerId IN
          /\ Len(question_answer) < maxTurns
          /\ question_answer' =
               Append(question_answer,
                      QuestionAnswerRow(id[1], answer, user_id, now, FALSE))
          /\ ret' = [op |-> "add_question_answer", fault |-> "",
                     user_id |-> user_id,
                     value |-> IF id = None THEN 0 ELSE id[1]]

----------------------------------------------------------------------------
(* get_history_of_chat *)

\* lines 256-264: the rows of the user at or after the cutoff, oldest first
RecentQa(user_id, cutoff_time) ==
  AscOrders({qa \in RowsOf(user_id) : qa.created_at >= cutoff_time})

\* lines 266-273
HistoryOfChat(recent_qa, limit_pairs) ==
  LET all_pairs == SelectSeq(recent_qa, AnswerNotEmpty)
      full_pairs == IF Len(all_pairs) > limit_pairs
                    THEN PySliceFrom(all_pairs, -limit_pairs)
                    ELSE all_pairs
      unanswered == SelectSeq(recent_qa, AnswerEmpty)
  IN  full_pairs \o unanswered

get_history_of_chat(user_id, time, limit_pairs) ==
  /\ UNCHANGED <<user, question_answer, now>>
  /\ IF SelectUserById(user_id) = {}
     THEN ret' = [op |-> "get_history_of_chat", fault |-> "",
                  user_id |-> user_id, time |-> time,
                  limit_pairs |-> limit_pairs, at |-> now, history |-> <<>>]
     ELSE LET cutoff_time == now - time * TicksPerMinute IN
          \E recent_qa \in RecentQa(user_id, cutoff_time) :
            ret' = [op |-> "get_history_of_chat", fault |-> "",
                    user_id |-> user_id, time |-> time,
                    limit_pairs |-> limit_pairs, at |-> now,
                    history |-> HistoryOfChat(recent_qa, limit_pairs)]

----------------------------------------------------------------------------
(* filter_chat_history *)

\* a faulty variant of TrimmedHistory: it cuts at the first flagged row
TrimmedHistoryFirstStop(history) ==
  LET stop_indices == {i - 1 : i \in {j \in DOMAIN history : history[j].stop_point}}
      first_stop_idx == IF stop_indices # {} THEN -SetMax({-i : i \in stop_indices})
                        ELSE -1
  IN  IF first_stop_idx # -1 THEN PySliceFrom(history, first_stop_idx + 1)
      ELSE history

\* lines 293-296, with Python's 0-based indices
TrimmedHistory(history) ==
  LET stop_indices == {i - 1 : i \in {j \in DOMAIN history : history[j].stop_point}}
      last_stop_idx == IF stop_indices # {} THEN SetMax(stop_indices) ELSE -1
  IN  IF last_stop_idx # -1 THEN PySliceFrom(history, last_stop_idx + 1)
      ELSE history

\* lines 304-305
FilteredUnanswered(pairs, unanswered) ==
  LET last_answer_time == SetMax({qa.created_at : qa \in SeqToSet(pairs)})
      Fresh(qa) == qa.created_at > last_answer_time
  IN  SelectSeq(unanswered, Fresh)

filter_chat_history(history) ==
  IF history = <<>> THEN [pairs |-> <<>>, unanswered |-> <<>>]
  ELSE LET trimmed_history == TrimmedHistory(history)
           pairs == SelectSeq(trimmed_history, AnswerNotEmpty)
           unanswered == SelectSeq(trimmed_history, AnswerEmpty)
       IN  IF pairs = <<>> THEN [pairs |-> <<>>, unanswered |-> unanswered]
           ELSE [pairs |-> pairs,
                 unanswered |-> FilteredUnanswered(pairs, unanswered)]

\* the caller hands the list it holds to filter_chat_history
FilterStep ==
  /\ ret.op \in {"get_history_of_chat", "history"}
  /\ LET out == filter_chat_history(ret.history) IN
       ret' = [op |-> "filter_chat_history", fault |-> "", call |-> ret,
               pairs |-> out.pairs, unanswered |-> out.unanswered]
  /\ UNCHANGED <<user, question_answer, now>>

----------------------------------------------------------------------------
(* set_stop_point *)

\* a faulty variant of LastMessage: the rows are ordered oldest first
LastMessageOldest(user_id) ==
  {o[1] : o \in {d \in AscOrders(RowsOf(user_id)) : d # <<>>}}

\* lines 319-323: the first row of the user's rows, newest first
LastMessage(user_id) ==
  {o[1] : o \in {d \in DescOrders(RowsOf(user_id)) : d # <<>>}}

set_stop_point(user_id, valbool) ==
  /\ UNCHANGED <<user, now>>
  /\ ret' = [op |-> "set_stop_point", fault |-> "", user_id |-> user_id,
             valbool |-> valbool]
  /\ IF LastMessage(user_id) = {}
     THEN UNCHANGED question_answer
     ELSE \E last_message \in LastMessage(user_id) :
            question_answer' =
              [question_answer EXCEPT ![last_message.id].stop_point = valbool]

----------------------------------------------------------------------------
(* Specification of the user table alone. *)

MaxIds == {Some(10), Some(20), Some(30), None}

UserIds == 1 .. MaxUsers + 1

NextUsers ==
  \/ \E max_id \in MaxIds : add_user(max_id) /\ Alone
  \/ \E max_id \in MaxIds : get_user_id(max_id) /\ Alone
  \/ \E user_id \in UserIds : subscribe_user(user_id) /\ Alone

SpecUsers == Init /\ [][NextUsers]_vars

----------------------------------------------------------------------------
(* Specification of one user's conversation: its turns, its boundaries and *)
(* the two stages of the history window.  User 2 never exists.             *)

ConvMaxIds == {Some(10)}

Answers == {Some(""), Some("a"), None}

ConvUserIds == 1 .. 2

TimeArgs == {1, DefaultTime}

LimitArgs == {-1, 0, 1, DefaultLimitPairs}

Next ==
  \/ Tick(MaxClock) /\ Alone
  \/ \E max_id \in ConvMaxIds : add_user(max_id) /\ Alone
  \/ \E answer \in Answers, user_id \in ConvUserIds :
       add_question_answer(answer, user_id, MaxTurns) /\ Alone
  \/ \E user_id \in ConvUserIds, valbool \in BOOLEAN :
       set_stop_point(user_id, valbool) /\ Alone
  \/ \E user_id \in ConvUserIds, time \in TimeArgs, limit_pairs \in LimitArgs :
       get_history_of_chat(user_id, time, limit_pairs) /\ Alone
  \/ FilterStep /\ Alone

Spec == Init /\ [][Next]_vars

----------------------------------------------------------------------------
(* Specification of the stored log of several users: the writes alone.     *)

StoreMaxIds == {Some(10), Some(20)}

StoreAnswers == {Some("a")}

NextStore ==
  \/ Tick(MaxClock) /\ Alone
  \/ \E max_id \in StoreMaxIds : add_user(max_id) /\ Alone
  \/ \E answer \in StoreAnswers, user_id \in UserIds :
       add_question_answer(answer, user_id, MaxTurns) /\ Alone
  \/ \E user_id \in UserIds, valbool \in BOOLEAN :
       set_stop_point(user_id, valbool) /\ Alone

SpecStore == Init /\ [][NextStore]_vars

----------------------------------------------------------------------------
(* Specification of the spam guard: one user's log and the clock.          *)

SpamMaxIds == {Some(10)}

SpamAnswers == {Some("a")}

NextSpam ==
  \/ Tick(MaxSpamClock) /\ Alone
  \/ \E max_id \in SpamMaxIds : add_user(max_id) /\ Alone
  \/ \E answer \in SpamAnswers :
       add_question_answer(answer, 1, MaxSpamTurns) /\ Alone
  \/ \E user_id \in 1 .. 2 : check_spam(user_id) /\ Alone

SpecSpam == Init /\ [][NextSpam]_vars

----------------------------------------------------------------------------
(* Specification of the inbound flow: a question is appended only after    *)
(* check_spam, as the last call, let it pass.                              *)

\* inbound turn -> Spam Guard check -> Repository append
SpamCheckPassed(user_id) ==
  /\ ret.op = "check_spam"
  /\ ret.user_id = user_id
  /\ ~ret.value

NextFlow ==
  \/ Tick(MaxSpamClock) /\ Alone
  \/ \E max_id \in SpamMaxIds : add_user(max_id) /\ Alone
  \/ check_spam(1) /\ Alone
  \/ \E answer \in SpamAnswers :
       SpamCheckPassed(1) /\ add_question_answer(answer, 1, MaxSpamTurns) /\ Alone

SpecFlow == Init /\ [][NextFlow]_vars

----------------------------------------------------------------------------
(* Specification of filter_chat_history as a pure function: any list of    *)
(* rows, in any order, is handed to it.                                    *)

\* what a row of the list carries besides its id: answer, created_at, stop_point
HistFields == Answers \X (0 .. MaxHistTime) \X BOOLEAN

\* the list of rows with the fields f, ids in list order, all of user 1
HistoryOf(f) ==
  [i \in DOMAIN f |-> QuestionAnswerRow(i, f[i][1], 1, f[i][2], f[i][3])]

InitSegment ==
  /\ user = <<>>
  /\ question_answer = <<>>
  /\ now = 0
  /\ calls = <<>>
  /\ max_id_unique = TRUE
  /\ \E n \in 0 .. MaxHistLen : \E f \in [1 .. n -> HistFields] :
       ret = [op |-> "history", fault |-> "", history |-> HistoryOf(f)]

NextSegment == FilterStep /\ Alone

SpecSegment == InitSegment /\ [][NextSegment]_vars

----------------------------------------------------------------------------
(* Callers side by side.  Each client makes one call of add_user or        *)
(* subscribe_user; a call is a Session block whose statements reach the    *)
(* store one at a time, and the statements of different clients            *)
(* interleave.  The store runs each statement atomically; no statement     *)
(* locks the row it reads.                                                 *)

NumClients == 2

Clients == 1 .. NumClients

ConcMaxIds == {Some(10), Some(20)}

ConcUserIds == 1 .. 2

\* the user table is empty or holds the user add_user(10) created; the
\* deployed table either enforces the unique constraint of line 44 or, as
\* migration 325fceb64c8c leaves it, does not
InitConc ==
  /\ user \in {<<>>, <<UserRow(Some(10), TRUE)>>}
  /\ question_answer = <<>>
  /\ now = 0
  /\ ret = NoCall
  /\ calls = [c \in Clients |-> [pc |-> "idle"]]
  /\ max_id_unique \in BOOLEAN

\* the call of client c returns or raises: result is its outcome, updated
\* tells whether it wrote User.is_subscribed
Finish(c, result, updated) ==
  /\ calls' = [calls EXCEPT ![c] =
                 [pc |-> "done", result |-> result, updated |-> updated]]
  /\ ret' = result

\* add_user, lines 103-105: the select by max_id (max_id is present)
add_user_select(c, max_id) ==
  /\ calls[c].pc = "idle"
  /\ LET found == SelectUserByMaxId(max_id[1]) IN
     \E u \in (IF found = {} THEN {None} ELSE {Some(i) : i \in found}) :
       calls' = [calls EXCEPT ![c] =
                   [pc |-> "add_user.selected", max_id |-> max_id, user |-> u]]
  /\ UNCHANGED <<user, question_answer, now, ret, max_id_unique>>

\* add_user, lines 107-116: insert and commit when the select found no row;
\* a unique constraint, where the table has one, rejects a second row with
\* the same max_id and the commit raises
add_user_commit(c) ==
  /\ calls[c].pc = "add_user.selected"
  /\ UNCHANGED <<question_answer, now, max_id_unique>>
  /\ LET max_id == calls[c].max_id IN
     IF calls[c].user = None
     THEN IF max_id_unique /\ SelectUserByMaxId(max_id[1]) # {}
          THEN /\ Finish(c, [op |-> "add_user", fault |-> "IntegrityError",
                             max_id |-> max_id], FALSE)
               /\ UNCHANGED user
          ELSE /\ user' = Append(user, UserRow(max_id, TRUE))
               /\ Finish(c, [op |-> "add_user", fault |-> "",
                             max_id |-> max_id, created |-> TRUE,
                             user_id |-> Len(user) + 1], FALSE)
     ELSE /\ Finish(c, [op |-> "add_user", fault |-> "", max_id |-> max_id,
                        created |-> FALSE, user_id |-> calls[c].user[1]],
                    FALSE)
          /\ UNCHANGED user

\* subscribe_user, lines 148-151: the select by id
subscribe_user_select(c, user_id) ==
  /\ calls[c].pc = "idle"
  /\ UNCHANGED <<user, question_answer, now, max_id_unique>>
  /\ IF SelectUserById(user_id) = {}
     THEN Finish(c, [op |-> "subscribe_user", fault |-> "",
                     user_id |-> user_id, value |-> FALSE], FALSE)
     ELSE /\ calls' = [calls EXCEPT ![c] =
                         [pc |-> "subscribe_user.selected",
                          user_id |-> user_id,
                          is_subscribed |-> user[user_id].is_subscribed]]
          /\ UNCHANGED ret

\* subscribe_user, lines 152-153: the negation of the value read is written
\* and committed
subscribe_user_commit(c) ==
  /\ calls[c].pc = "subscribe_user.selected"
  /\ user' = [user EXCEPT
                ![calls[c].user_id].is_subscribed = ~calls[c].is_subscribed]
  /\ calls' = [calls EXCEPT ![c] =
                 [pc |-> "subscribe_user.committed",
                  user_id |-> calls[c].user_id]]
  /\ UNCHANGED <<question_answer, now, ret, max_id_unique>>

\* subscribe_user, line 154: the commit expired the object, so the value
\* returned is read from the store again
subscribe_user_return(c) ==
  /\ calls[c].pc = "subscribe_user.committed"
  /\ UNCHANGED <<user, question_answer, now, max_id_unique>>
  /\ Finish(c, [op |-> "subscribe_user", fault |-> "",
                user_id |-> calls[c].user_id,
                value |-> user[calls[c].user_id].is_subscribed], TRUE)

NextConc ==
  \/ \E c \in Clients, max_id \in ConcMaxIds : add_user_select(c, max_id)
  \/ \E c \in Clients : add_user_commit(c)
  \/ \E c \in Clients, user_id \in ConcUserIds :
       subscribe_user_select(c, user_id)
  \/ \E c \in Clients : subscribe_user_commit(c)
  \/ \E c \in Clients : subscribe_user_return(c)

SpecConc == InitConc /\ [][NextConc]_vars

----------------------------------------------------------------------------
(* A client that closes and reopens a conversation while turns are being   *)
(* recorded.  The client first observes the user's latest turn, later      *)
(* calls set_stop_point(user_id, True) and then set_stop_point(user_id,    *)
(* False); set_stop_point is given the user id only.  What the client      *)
(* remembers is kept in its entry of "calls": the turn it saw, the number  *)
(* of rows the table had then, and the table as it was before the close.   *)

\* the client sees one of the user's newest rows
observe_latest(c, user_id) ==
  /\ calls[c].pc = "idle"
  /\ \E last_message \in LastMessage(user_id) :
       calls' = [calls EXCEPT ![c] =
                   [pc |-> "observed", user_id |-> user_id,
                    seen |-> last_message.id,
                    rows |-> Len(question_answer)]]
  /\ UNCHANGED <<user, question_answer, now, ret, max_id_unique>>

closeConversation(c) ==
  /\ calls[c].pc = "observed"
  /\ set_stop_point(calls[c].user_id, TRUE)
  /\ calls' = [calls EXCEPT ![c] =
                 [pc |-> "closed", user_id |-> calls[c].user_id,
                  seen |-> calls[c].seen, rows |-> calls[c].rows,
                  before |-> question_answer]]
  /\ UNCHANGED max_id_unique

reopenConversation(c) ==
  /\ calls[c].pc = "closed"
  /\ set_stop_point(calls[c].user_id, FALSE)
  /\ calls' = [calls EXCEPT ![c].pc = "reopened"]
  /\ UNCHANGED max_id_unique

InitService ==
  /\ user = <<>>
  /\ question_answer = <<>>
  /\ now = 0
  /\ ret = NoCall
  /\ calls = <<[pc |-> "idle"]>>
  /\ max_id_unique = TRUE

NextService ==
  \/ Tick(MaxClock) /\ Alone
  \/ \E max_id \in ConvMaxIds : add_user(max_id) /\ Alone
  \/ \E answer \in StoreAnswers, user_id \in DOMAIN user :
       add_question_answer(answer, user_id, MaxTurns) /\ Alone
  \/ \E c \in DOMAIN calls, user_id \in DOMAIN user : observe_latest(c, user_id)
  \/ \E c \in DOMAIN calls : closeConversation(c)
  \/ \E c \in DOMAIN calls : reopenConversation(c)

SpecService == InitService /\ [][NextService]_vars

----------------------------------------------------------------------------
(* The properties checked.                                                 *)

\* the data model's notion: a non-empty string is an answer, an empty or
\* absent one is not
Answered(qa) == qa.answer \notin {None, Some("")}

Unanswered(qa) == ~Answered(qa)

\* the rows a result holds
Output(r) == SeqToSet(r.pairs) \cup SeqToSet(r.unanswered)

\* s is in ascending created_at order
Ascending(s) == \A i, j \in DOMAIN s : i < j => s[i].created_at <= s[j].created_at

\* the index of the last row of h with stop_point set, 0 when there is none
LastBoundaryIndex(h) ==
  LET B == {i \in DOMAIN h : h[i].stop_point}
  IN  IF B = {} THEN 0 ELSE SetMax(B)

\* the rows of the user carry distinct created_at and present answers
PlainLog(user_id) ==
  /\ \A r \in RowsOf(user_id) : r.answer # None
  /\ \A r1, r2 \in RowsOf(user_id) : r1.created_at = r2.created_at => r1 = r2

\* C1: the active context (get_history_of_chat with the 30-minute window,
\* then filter_chat_history) holds no turn created at or before the user's
\* latest turn with stop_point set.  Stated for the logs without equal
\* timestamps and without absent answers, where neither the order of tied
\* rows nor the reading of an absent answer plays a part.
CexC1 ==
  (ret.op = "filter_chat_history" /\ ret.call.op = "get_history_of_chat"
     /\ ret.call.time = DefaultTime /\ PlainLog(ret.call.user_id))
  => LET B == {r \in RowsOf(ret.call.user_id) : r.stop_point}
     IN  \A b \in B : \A x \in Output(ret) : x.created_at > b.created_at

\* the created_at of the 5th most recent row of a user: at most 4 rows are
\* newer and at least 5 are as new
FifthMostRecent(user_id) ==
  {r.created_at : r \in
     {x \in RowsOf(user_id) :
        /\ Cardinality({y \in RowsOf(user_id) : y.created_at > x.created_at}) <= 4
        /\ Cardinality({y \in RowsOf(user_id) : y.created_at >= x.created_at}) >= 5}}

InSpan(user_id, at) ==
  {r \in RowsOf(user_id) : at - r.created_at < TicksPerMinute}

\* C3: in the flow check-then-append, the check of a question that follows
\* fewer than 5 stored questions of the last minute passes, and the check of
\* the 6th question of one minute (5 stored in that minute) rejects it.
CexC3 ==
  (ret.op = "check_spam" /\ ret.user_id \in DOMAIN user)
  => LET k == Cardinality(InSpan(ret.user_id, ret.at))
     IN  /\ k < 5 => ~ret.value
         /\ k = 5 => ret.value

\* C4: a call add_user(x) reports created only when no user had x before it,
\* returns a user that carries x, and, when it directly follows another
\* add_user(x), returns the same id, reports created = false and leaves the
\* user table as it was.
ThmC4 ==
  [][(ret'.op = "add_user" /\ ret'.fault = "" /\ now' = now)
     => /\ ret'.created => \A i \in DOMAIN user : user[i].max_id # ret'.max_id
        /\ ret'.user_id \in DOMAIN user'
        /\ user'[ret'.user_id].max_id = ret'.max_id
        /\ (ret.op = "add_user" /\ ret.fault = "" /\ ret.max_id = ret'.max_id)
           => /\ ret'.user_id = ret.user_id
              /\ ~ret'.created
              /\ user' = user]_vars

\* C4 witness: add_user found an existing, unsubscribed user among several.
WitC4 ==
  /\ ret.op = "add_user"
  /\ ret.fault = ""
  /\ ~ret.created
  /\ Len(user) >= 2
  /\ ~user[ret.user_id].is_subscribed

\* the rows of the user inside the window of a get_history_of_chat call
InWindow(call) ==
  {r \in RowsOf(call.user_id) :
     r.created_at >= call.at - call.time * TicksPerMinute}

\* C5: for limit_pairs >= 0 the list get_history_of_chat returns is at most
\* limit_pairs answered turns, the most recent answered ones of the window in
\* ascending order, followed by every unanswered turn of the window in
\* ascending order.
CexC5 ==
  (ret.op = "get_history_of_chat" /\ ret.limit_pairs >= 0
     /\ ret.user_id \in DOMAIN user)
  => LET h == ret.history
         A == {r \in InWindow(ret) : Answered(r)}
         U == {r \in InWindow(ret) : Unanswered(r)}
         k == Min(ret.limit_pairs, Cardinality(A))
         head == SubSeq(h, 1, k)
         tail == SubSeq(h, k + 1, Len(h))
     IN  /\ Len(h) = k + Cardinality(U)
         /\ SeqToSet(head) \subseteq A
         /\ Cardinality(SeqToSet(head)) = k
         /\ \A x \in SeqToSet(head) : \A y \in A \ SeqToSet(head) :
              y.created_at <= x.created_at
         /\ Ascending(head)
         /\ SeqToSet(tail) = U
         /\ Ascending(tail)

\* C6: a turn whose answer is absent is handled as an unanswered one:
\* get_history_of_chat never drops it for the pair cap, and no turn in the
\* pairs that filter_chat_history returns lacks a non-empty answer.
CexC6 ==
  /\ (ret.op = "get_history_of_chat")
     => \A r \in InWindow(ret) : r.answer = None => r \in SeqToSet(ret.history)
  /\ ret.op = "filter_chat_history"
     => \A x \in SeqToSet(ret.pairs) : Answered(x)

\* C7: filter_chat_history returns only rows placed after the last row with
\* stop_point set, and every row with a non-empty answer placed there is in
\* pairs; so the last flag alone decides, without a flag the whole list is
\* considered, and a list that ends with the flagged row, or an empty list,
\* gives ([], []).
ThmC7 ==
  ret.op = "filter_chat_history"
  => LET h == ret.call.history
         last == LastBoundaryIndex(h)
     IN  /\ \A x \in Output(ret) : \E i \in last + 1 .. Len(h) : h[i] = x
         /\ \A i \in last + 1 .. Len(h) :
              Answered(h[i]) => h[i] \in SeqToSet(ret.pairs)
         /\ last = Len(h) => ret.pairs = <<>> /\ ret.unanswered = <<>>

\* C7 witness: two flagged rows, the last of them not at the end, and a
\* pair returned.
WitC7 ==
  /\ ret.op = "filter_chat_history"
  /\ Cardinality({i \in DOMAIN ret.call.history :
                    ret.call.history[i].stop_point}) >= 2
  /\ LastBoundaryIndex(ret.call.history) < Len(ret.call.history)
  /\ \E x \in SeqToSet(ret.pairs) : Answered(x)

\* C8: with an answered turn after the last boundary, pairs is the answered
\* turns of that suffix in input order and unanswered is its unanswered turns
\* created strictly after the newest pair; without one, pairs is empty and
\* unanswered is all unanswered turns of the suffix in input order.
CexC8 ==
  ret.op = "filter_chat_history"
  => LET h == ret.call.history
         suffix == SubSeq(h, LastBoundaryIndex(h) + 1, Len(h))
         answered == SelectSeq(suffix, Answered)
         unanswered == SelectSeq(suffix, Unanswered)
         newest == SetMax({x.created_at : x \in SeqToSet(answered)})
         After(x) == x.created_at > newest
     IN  IF answered # <<>>
         THEN ret.pairs = answered /\ ret.unanswered = SelectSeq(unanswered, After)
         ELSE ret.pairs = <<>> /\ ret.unanswered = unanswered

\* C9: a set_stop_point(user_id, valbool) step changes at most one row, only
\* its stop_point, to valbool; the row is one of user_id with the greatest
\* created_at before the step; no row is added or removed and the user table
\* is unchanged; a user with rows gets the flag on such a row, a user with
\* none changes nothing.
ThmC9 ==
  [][(ret'.op = "set_stop_point" /\ now' = now)
     => LET u == ret'.user_id
            changed == {i \in DOMAIN question_answer :
                          question_answer'[i] # question_answer[i]}
            Newest(i) ==
              /\ question_answer[i].user_id = u
              /\ \A r \in RowsOf(u) : r.created_at <= question_answer[i].created_at
        IN  /\ DOMAIN question_answer' = DOMAIN question_answer
            /\ user' = user
            /\ Cardinality(changed) <= 1
            /\ \A i \in changed :
                 /\ Newest(i)
                 /\ question_answer'[i] =
                      [question_answer[i] EXCEPT !.stop_point = ret'.valbool]
            /\ RowsOf(u) # {}
               => \E i \in DOMAIN question_answer :
                    Newest(i) /\ question_answer'[i].stop_point = ret'.valbool
            /\ RowsOf(u) = {} => changed = {}]_vars

\* C9 witness: the flag was set for a user who has an older, unflagged row,
\* while another user has a row too.
WitC9 ==
  /\ ret.op = "set_stop_point"
  /\ ret.valbool
  /\ \E m \in RowsOf(ret.user_id) :
       /\ m.stop_point
       /\ \A r \in RowsOf(ret.user_id) : r.created_at <= m.created_at
       /\ \E r \in RowsOf(ret.user_id) :
            r.created_at < m.created_at /\ ~r.stop_point
  /\ \E r \in SeqToSet(question_answer) : r.user_id # ret.user_id

\* C10: subscribe_user on an unknown user_id returns an outcome that is
\* neither boolean and leaves the user table alone; on a known user it
\* returns the flipped, stored flag.
CexC10 ==
  ret.op = "subscribe_user"
  => IF ret.user_id \in DOMAIN user
     THEN ret.value = user[ret.user_id].is_subscribed
     ELSE ret.value \notin BOOLEAN

----------------------------------------------------------------------------
(* C11: add_question_answer never returns the sentinel 0 in place of an    *)
(* id.  Every call that returns a value has appended exactly one row: the  *)
(* value is that row's id, the row belongs to the given user, is stamped   *)
(* with the current clock, is not a boundary, and its id differs from the  *)
(* id of every row that existed before (so from every id returned          *)
(* earlier).  A call that could not insert ends in a fault, returns no     *)
(* value and leaves the table as it was.                                   *)

AddQuestionAnswerStep ==
  /\ ret'.op = "add_question_answer"
  /\ now' = now
  /\ <<question_answer, ret>>' # <<question_answer, ret>>

----------------------------------------------------------------------------
(* C12: under every interleaving of add_user calls with the same present   *)
(* max_id, no state holds two users with that max_id, no call ends in a    *)
(* fault, all the calls return the same user id, and at most one of them   *)
(* (exactly one when the user was new) reports that it created the user.   *)

\* the clients whose add_user(max_id) has completed
AddUserDone(max_id) ==
  {c \in Clients : /\ calls[c].pc = "done"
                   /\ calls[c].result.op = "add_user"
                   /\ calls[c].result.max_id = max_id}

CexC12 ==
  \A max_id \in ConcMaxIds :
    /\ Cardinality(SelectUserByMaxId(max_id[1])) <= 1
    /\ \A c \in AddUserDone(max_id) : calls[c].result.fault = ""
    /\ \A c, d \in AddUserDone(max_id) :
         /\ calls[c].result.user_id = calls[d].result.user_id
         /\ (calls[c].result.created /\ calls[d].result.created) => c = d

----------------------------------------------------------------------------
(* C13: toggles of one user that run side by side never lose an update.    *)
(* A user starts subscribed, so once every call has completed the flag is  *)
(* True exactly when the number of toggles that wrote it is even; and when *)
(* two toggles wrote it, the two calls returned opposite values.           *)

\* the clients whose subscribe_user(user_id) found the user and completed
Toggled(user_id) ==
  {c \in Clients : /\ calls[c].pc = "done"
                   /\ calls[c].result.op = "subscribe_user"
                   /\ calls[c].result.user_id = user_id
                   /\ calls[c].updated}

CexC13 ==
  (\A c \in Clients : calls[c].pc = "done") =>
    \A user_id \in DOMAIN user :
      /\ user[user_id].is_subscribed = (Cardinality(Toggled(user_id)) % 2 = 0)
      /\ \A c, d \in Toggled(user_id) :
           (Cardinality(Toggled(user_id)) = 2 /\ c # d) =>
             calls[c].result.value # calls[d].result.value

----------------------------------------------------------------------------
(* C14: get_history_of_chat called with a negative limit_pairs fails fast   *)
(* with InvalidArgument and returns no list.  (Stated for the calls whose  *)
(* user has two answered turns in the window, where a list is at stake.)   *)

CexC14 ==
  ( /\ ret.op = "get_history_of_chat"
    /\ ret.limit_pairs < 0
    /\ PlainLog(ret.user_id)
    /\ Cardinality({qa \in InWindow(ret) : Answered(qa)}) >= 2 )
  => /\ ret.fault = "InvalidArgument"
     /\ "history" \notin DOMAIN ret

----------------------------------------------------------------------------
(* C17: add_user without a max_id completes without a fault, inserts a     *)
(* subscribed user whose max_id is absent and reports created; and         *)
(* get_user_id without a max_id returns None instead of faulting.          *)

CexC17 ==
  /\ (ret.op = "add_user" /\ ret.max_id = None) =>
       /\ ret.fault = ""
       /\ ret.created
       /\ ret.user_id \in DOMAIN user
       /\ user[ret.user_id] = UserRow(None, TRUE)
  /\ (ret.op = "get_user_id" /\ ret.max_id = None) =>
       /\ ret.fault = ""
       /\ ret.value = None

----------------------------------------------------------------------------
(* C15: rows of one user with equal created_at are read in id order.  In   *)
(* the list of get_history_of_chat, of two tied rows of the same part      *)
(* (answered or unanswered) the one inserted first comes first; and        *)
(* set_stop_point writes the flag of the tied newest row inserted last.    *)

\* tied rows of the same part of the list stand in id order
TiesById(history) ==
  \A i, j \in DOMAIN history :
    ( /\ i < j
      /\ history[i].created_at = history[j].created_at
      /\ AnswerEmpty(history[i]) = AnswerEmpty(history[j]) )
    => history[i].id < history[j].id

CexC15 ==
  [][ /\ ret'.op = "get_history_of_chat" => TiesById(ret'.history)
      /\ (ret'.op = "set_stop_point" /\ question_answer' # question_answer) =>
           \A i \in DOMAIN question_answer :
             question_answer'[i] # question_answer[i] =>
               \A r \in RowsOf(ret'.user_id) :
                 r.created_at = question_answer[i].created_at => r.id <= i
    ]_vars

----------------------------------------------------------------------------
(* C18: closing never hides later turns.  In the active context            *)
(* (get_history_of_chat then filter_chat_history) every answered turn of   *)
(* the window that was created strictly after the user's latest turn with  *)
(* stop_point set, and that is among the limit_pairs most recent answered  *)
(* turns of the window, is in pairs; also when the flag sits on an         *)
(* unanswered turn.  Stated for the logs without equal timestamps and      *)
(* without absent answers.                                                 *)

\* the answered rows of the window of the call, the newest limit_pairs of them
RecentAnswered(call) ==
  LET A == {r \in InWindow(call) : Answered(r)}
  IN  {r \in A :
         Cardinality({x \in A : x.created_at > r.created_at}) < call.limit_pairs}

CexC18 ==
  (ret.op = "filter_chat_history" /\ ret.call.op = "get_history_of_chat"
     /\ PlainLog(ret.call.user_id))
  => LET B == {r \in RowsOf(ret.call.user_id) : r.stop_point}
     IN  \A r \in RecentAnswered(ret.call) :
           (\A b \in B : r.created_at > b.created_at) =>
             r \in SeqToSet(ret.pairs)

----------------------------------------------------------------------------
(* C19: a user is never rate-limited for ever.  A check made when every    *)
(* turn of the user is at least a minute old returns false, however many   *)
(* turns there are; and between two checks of one user with no call in     *)
(* between (so no turn recorded, only the clock may advance) the verdict   *)
(* never goes from false to true.                                          *)

ThmC19 ==
  [][ /\ ( /\ ret'.op = "check_spam"
           /\ \A r \in RowsOf(ret'.user_id) :
                ret'.at - r.created_at >= TicksPerMinute )
         => ~ret'.value
      /\ ( /\ ret.op = "check_spam"
           /\ ret'.op = "check_spam"
           /\ ret'.user_id = ret.user_id
           /\ ~ret.value )
         => ~ret'.value
    ]_vars

\* a user with more than 5 turns, all recorded a minute ago or earlier, is
\* checked and not limited
WitC19 ==
  /\ ret.op = "check_spam"
  /\ ~ret.value
  /\ Cardinality(RowsOf(ret.user_id)) > SpamThreshold
  /\ \A r \in RowsOf(ret.user_id) : ret.at - r.created_at >= TicksPerMinute

----------------------------------------------------------------------------
(* C16: the close/record race.  When the client has observed turn T as     *)
(* the user's latest and a turn of the user is recorded before the         *)
(* client's set_stop_point(user_id, True) runs, that call sets the flag on *)
(* a turn recorded after the observation and leaves T as it was.           *)

\* the rows of the client's user recorded after the client observed
RecordedSince(c) ==
  {r \in RowsOf(calls[c].user_id) : r.id > calls[c].rows}

CexC16 ==
  [][\A c \in DOMAIN calls :
       ( /\ calls[c].pc = "observed"
         /\ calls'[c].pc = "closed"
         /\ RecordedSince(c) # {} )
       => \E r \in RecordedSince(c) :
            question_answer' =
              [question_answer EXCEPT ![r.id].stop_point = TRUE]
    ]_vars

----------------------------------------------------------------------------
(* C20: set_stop_point(user_id, True) followed by set_stop_point(user_id,  *)
(* False) with no turn recorded in between is a round trip when no newest  *)
(* turn of the user carried the flag before: every row, stop_point         *)
(* included, is as it was before the close (and so is every read, the      *)
(* reads being functions of the table and the clock).                      *)

\* the rows of the user in table with the greatest created_at
LatestOf(table, user_id) ==
  {r \in SeqToSet(table) :
     /\ r.user_id = user_id
     /\ \A x \in SeqToSet(table) :
          x.user_id = user_id => x.created_at <= r.created_at}

CexC20 ==
  \A c \in DOMAIN calls :
    ( /\ calls[c].pc = "reopened"
      /\ Len(question_answer) = Len(calls[c].before)
      /\ \A r \in LatestOf(calls[c].before, calls[c].user_id) : ~r.stop_point )
    => question_answer = calls[c].before

====
